---- MODULE Spec2Model ----
(***************************************************************************)
(* A model of the triangle-splatting viewer: the .tsplat stream loader     *)
(* (load.rs), the application state and its event handlers (lib.rs), the   *)
(* frame pacer (gui.rs) and the subframe accumulation loop (display.rs).   *)
(*                                                                         *)
(* Numbers that are floats in the program are kept as integers in a fixed  *)
(* unit, named where each is introduced.                                   *)
(***************************************************************************)
EXTENDS Integers, Sequences, FiniteSets, TLC

(***************************************************************************)
(* Part 1: load.rs, read_tsplat as a function of the stream.               *)
(***************************************************************************)

\* usize of the wasm32 target the crate is built for (lib.rs imports
\* winit::platform::web): 32 bits.  A usize or u32 value is kept as two
\* 16-bit halves [hi, lo], its value being hi * 2^16 + lo.
UsizeBits == 32

Half == 2 ^ (UsizeBits \div 2)

U(n) == [hi |-> n \div Half, lo |-> n % Half]

\* The value of a usize below 2^31, as a number.
N(u) == u.hi * Half + u.lo

\* size_of::<Vec3f>() = 12, a triangle is 3 of them; Vec2h is 4 bytes; Vec3h 6.
SizeOfVec3f == 12

SizeOfVec2h == 4

SizeOfVec3h == 6

\* Largest triangle count of a well-formed stream of the model.
MaxTris == 3

\* const INVALID_FLIE
INVALID_FLIE == "invalid model file"

\* forward = Vec3f::new(0.8644, 0.4385, 0.2458), in units of 1/10000.
forward == <<8644, 4385, 2458>>

VAdd(a, b) == <<a[1] + b[1], a[2] + b[2], a[3] + b[3]>>

VDiv(a, k) == <<a[1] \div k, a[2] \div k, a[3] \div k>>

Dot(a, b) == a[1] * b[1] + a[2] * b[2] + a[3] * b[3]

\* The sort key of load.rs:107-111: c = tri[0] + tri[1] + tri[2] / 3.0 (the
\* division binds to tri[2] alone), key = c.dot(&forward).
\* A position value is a number or NaN.  NaN is written as a number that no
\* position of the model's streams takes; every f32 operation on a NaN gives
\* NaN, so the key of a triangle with a NaN position value is NaN.
NaN == 0 - 99

HasNaN(tri) == \E v \in 1..3 : \E c \in 1..3 : tri[v][c] = NaN

SortKey(tri) ==
    IF HasNaN(tri) THEN NaN
    ELSE Dot(VAdd(VAdd(tri[1], tri[2]), VDiv(tri[3], 3)), forward)

\* partial_cmp of two keys is None when either is NaN, and unwrap() of None
\* panics.  slice::sort_by returns at once for fewer than two entries and
\* otherwise passes every entry to the comparison at least once.
SortPanics(keys) == Len(keys) >= 2 /\ \E i \in 1..Len(keys) : keys[i] = NaN

\* kv.sort_by(|a, b| b.0.partial_cmp(&a.0).unwrap()): a stable sort, so of two
\* entries the later one goes first only when its key is strictly greater.
\* kv is a sequence of <<key, index>>.
RECURSIVE InsertDesc(_, _)
InsertDesc(sorted, e) ==
    IF sorted = <<>> THEN <<e>>
    ELSE LET last == sorted[Len(sorted)]
         IN  IF e[1] > last[1]
             THEN Append(InsertDesc(SubSeq(sorted, 1, Len(sorted) - 1), e), last)
             ELSE Append(sorted, e)

RECURSIVE SortDesc(_)
SortDesc(kv) ==
    IF kv = <<>> THEN <<>>
    ELSE InsertDesc(SortDesc(SubSeq(kv, 1, Len(kv) - 1)), kv[Len(kv)])

\* usize arithmetic.  With overflow checks (a debug build) an overflowing
\* operation panics; without them (a release build) it wraps modulo 2^32.
\* A result is <<value, overflowed>>.  k is below 2^15.
UMul(u, k) ==
    LET lo == u.lo * k
        hi == u.hi * k + lo \div Half
    IN  <<[hi |-> hi % Half, lo |-> lo % Half], hi >= Half>>

UAdd(u, v) ==
    LET lo == u.lo + v.lo
        hi == u.hi + v.hi + lo \div Half
    IN  <<[hi |-> hi % Half, lo |-> lo % Half], hi >= Half>>

ULess(u, v) == u.hi < v.hi \/ (u.hi = v.hi /\ u.lo < v.lo)

\* str::trim of the header line, a sequence of one-character strings.
WhiteSpace == {" ", "\n", "\r", "\t"}

RECURSIVE TrimStart(_)
TrimStart(line) ==
    IF line # <<>> /\ line[1] \in WhiteSpace THEN TrimStart(Tail(line)) ELSE line

RECURSIVE TrimEnd(_)
TrimEnd(line) ==
    IF line # <<>> /\ line[Len(line)] \in WhiteSpace
    THEN TrimEnd(SubSeq(line, 1, Len(line) - 1))
    ELSE line

Trim(line) == TrimEnd(TrimStart(line))

MAGIC == <<"T", "S", "P", "L", "A", "T">>

\* A byte that is not valid UTF-8: read_line returns Err on it.
BadByte == "\\xFF"

\* A stream is
\*   line    : the bytes up to and including the first "\n" (all of the
\*             stream when it holds no "\n")
\*   count   : <<n>>, n the u32 that the next 4 bytes hold (little endian),
\*             or << >> when fewer than 4 bytes follow the line
\*   body    : the payload laid out for Len(body) triangles: their positions,
\*             then their (alpha, spread) records, then their color records
\*   missing : how many bytes of that layout's end the stream lacks
\* A triangle of the body is [pts, alpha_sigma, dc].
BytesPerTri == 3 * SizeOfVec3f + SizeOfVec2h + SizeOfVec3h

Avail(stream) ==
    IF stream.count = << >> THEN 0
    ELSE BytesPerTri * Len(stream.body) - stream.missing

Err(msg) == [kind |-> "Err", msg |-> msg]

Panic == [kind |-> "Panic"]

\* load.rs:45-49, the four sizes as <<value, overflowed>>.
PointsBytes(num_tris) ==
    LET m1 == UMul(num_tris, 3)
        m2 == UMul(m1[1], SizeOfVec3f)
    IN  <<m2[1], m1[2] \/ m2[2]>>

AlphaSigmaBytes(num_tris) == UMul(num_tris, SizeOfVec2h)

ShBytes(num_tris) == UMul(num_tris, SizeOfVec3h)

ExpectedBytes(num_tris) ==
    LET p == PointsBytes(num_tris)
        a == AlphaSigmaBytes(num_tris)
        s == ShBytes(num_tris)
        s1 == UAdd(p[1], a[1])
        s2 == UAdd(s1[1], s[1])
    IN  <<s2[1], p[2] \/ a[2] \/ s[2] \/ s1[2] \/ s2[2]>>

\* load.rs:75-127: the buffer holds the first ExpectedBytes bytes of the
\* payload; the three slices are reinterpreted, the color records padded to
\* four components and followed by zero records up to num_tris * 12, and all
\* three arrays are gathered through the sorted index list.
ZeroVec4h == <<0, 0, 0, 0>>

\* ParseAndSort with the (alpha, spread) records left in file order.
ParseAndSortAlphaInFileOrder(stream, num_tris) ==
    LET n_points == N(PointsBytes(num_tris)[1]) \div (3 * SizeOfVec3f)
        n_alpha == N(AlphaSigmaBytes(num_tris)[1]) \div SizeOfVec2h
        n_dc == N(ShBytes(num_tris)[1]) \div SizeOfVec3h
        n_sh == N(UMul(num_tris, 12)[1])
        points == [i \in 1..n_points |-> stream.body[i].pts]
        alpha_sigma == [i \in 1..n_alpha |-> stream.body[i].alpha_sigma]
        sh == [i \in 1..n_sh |->
                 IF i <= n_dc
                 THEN LET v == stream.body[i].dc IN <<v[1], v[2], v[3], 0>>
                 ELSE ZeroVec4h]
        keys == [i \in 1..n_points |-> SortKey(points[i])]
        kv == SortDesc([i \in 1..n_points |-> <<keys[i], i>>])
    IN  IF SortPanics(keys) THEN Panic ELSE
        [kind |-> "Ok",
         points |-> [j \in 1..Len(kv) |-> points[kv[j][2]]],
         alpha_sigma |-> alpha_sigma,
         sh |-> [j \in 1..Len(kv) |-> sh[kv[j][2]]],
         order |-> [j \in 1..Len(kv) |-> kv[j][2]]]

\* load.rs:75-127, as described above.
ParseAndSort(stream, num_tris) ==
    LET n_points == N(PointsBytes(num_tris)[1]) \div (3 * SizeOfVec3f)
        n_alpha == N(AlphaSigmaBytes(num_tris)[1]) \div SizeOfVec2h
        n_dc == N(ShBytes(num_tris)[1]) \div SizeOfVec3h
        n_sh == N(UMul(num_tris, 12)[1])
        points == [i \in 1..n_points |-> stream.body[i].pts]
        alpha_sigma == [i \in 1..n_alpha |-> stream.body[i].alpha_sigma]
        sh == [i \in 1..n_sh |->
                 IF i <= n_dc
                 THEN LET v == stream.body[i].dc IN <<v[1], v[2], v[3], 0>>
                 ELSE ZeroVec4h]
        keys == [i \in 1..n_points |-> SortKey(points[i])]
        kv == SortDesc([i \in 1..n_points |-> <<keys[i], i>>])
    IN  IF SortPanics(keys) THEN Panic ELSE
        [kind |-> "Ok",
         points |-> [j \in 1..Len(kv) |-> points[kv[j][2]]],
         alpha_sigma |-> [j \in 1..Len(kv) |-> alpha_sigma[kv[j][2]]],
         sh |-> [j \in 1..Len(kv) |-> sh[kv[j][2]]],
         order |-> [j \in 1..Len(kv) |-> kv[j][2]]]

\* load.rs:18-127, read_tsplat.  overflow_checks is the build's setting.  A
\* slice of the buffer that ends past the buffer panics.
read_tsplat(stream, overflow_checks) ==
    IF \E i \in 1..Len(stream.line) : stream.line[i] = BadByte
    THEN Err(INVALID_FLIE)
    ELSE IF Trim(stream.line) # MAGIC THEN Err(INVALID_FLIE)
    ELSE IF stream.count = << >> THEN Err(INVALID_FLIE)
    ELSE LET num_tris == stream.count[1]
             expected == ExpectedBytes(num_tris)
             points_end == PointsBytes(num_tris)[1]
             alpha_end == UAdd(points_end, AlphaSigmaBytes(num_tris)[1])
             sh_end == UAdd(alpha_end[1], ShBytes(num_tris)[1])
         IN  IF expected[2] /\ overflow_checks THEN Panic
             ELSE IF ULess(U(Avail(stream)), expected[1]) THEN Err(INVALID_FLIE)
             ELSE IF \/ ULess(expected[1], points_end)
                     \/ ULess(expected[1], alpha_end[1])
                     \/ ULess(expected[1], sh_end[1])
                  THEN Panic
             ELSE ParseAndSort(stream, num_tris)

\* Option<T>: None, or Some(x); the value of a Some is opt[1].
None == << >>

Some(x) == <<x>>

(***************************************************************************)
(* Part 2: display.rs, the RenderFrame and the passes of Display::render.  *)
(***************************************************************************)

\* RenderResolution (display.rs:14-46) as [name], and [name, w, h] for
\* Native(w, h); width and height.
Ws(name) == [name |-> name]

Native(w, h) == [name |-> "Native", w |-> w, h |-> h]

Width(resolution) ==
    CASE resolution.name = "Ws360P" -> 640
      [] resolution.name = "Ws720P" -> 1280
      [] resolution.name = "Ws1080P" -> 1920
      [] resolution.name = "Ws1440P" -> 2560
      [] resolution.name = "Ws2160P" -> 3840
      [] resolution.name = "Native" -> resolution.w

Height(resolution) ==
    CASE resolution.name = "Ws360P" -> 360
      [] resolution.name = "Ws720P" -> 720
      [] resolution.name = "Ws1080P" -> 1080
      [] resolution.name = "Ws1440P" -> 1440
      [] resolution.name = "Ws2160P" -> 2160
      [] resolution.name = "Native" -> resolution.h

\* create_render_frame with the depth texture at the frame's own size.
DepthAtFrameSize(resolution, supersample, serial) ==
    LET width == Width(resolution)
        height == Height(resolution)
        sample_texture == [id |-> 4 * serial,
                           width |-> width * supersample,
                           height |-> height * supersample]
        depth_texture == [id |-> 4 * serial + 1, width |-> width, height |-> height]
        blit_front_texture == [id |-> 4 * serial + 2, width |-> width, height |-> height]
        blit_back_texture == [id |-> 4 * serial + 3, width |-> width, height |-> height]
    IN  [sample_texture |-> sample_texture,
         blit_front_texture |-> blit_front_texture,
         blit_back_texture |-> blit_back_texture,
         depth_texture |-> depth_texture,
         sample_bind_group_front |->
             [sample |-> sample_texture.id, history |-> blit_back_texture.id],
         sample_bind_group_back |->
             [sample |-> sample_texture.id, history |-> blit_front_texture.id],
         blit_front_bind_group |-> [texture |-> blit_front_texture.id],
         blit_back_bind_group |-> [texture |-> blit_back_texture.id]]

\* Display::create_render_frame (display.rs:324-492).  A texture is
\* [id, width, height]; `serial` numbers the call, so the four textures of
\* one RenderFrame differ from each other and from every earlier one.  A
\* bind group is the record of the textures its entries view.
create_render_frame(resolution, supersample, serial) ==
    LET width == Width(resolution)
        height == Height(resolution)
        sample_texture == [id |-> 4 * serial,
                           width |-> width * supersample,
                           height |-> height * supersample]
        depth_texture == [id |-> 4 * serial + 1,
                          width |-> width * supersample,
                          height |-> height * supersample]
        blit_front_texture == [id |-> 4 * serial + 2, width |-> width, height |-> height]
        blit_back_texture == [id |-> 4 * serial + 3, width |-> width, height |-> height]
    IN  [sample_texture |-> sample_texture,
         blit_front_texture |-> blit_front_texture,
         blit_back_texture |-> blit_back_texture,
         depth_texture |-> depth_texture,
         sample_bind_group_front |->
             [sample |-> sample_texture.id, history |-> blit_back_texture.id],
         sample_bind_group_back |->
             [sample |-> sample_texture.id, history |-> blit_front_texture.id],
         blit_front_bind_group |-> [texture |-> blit_front_texture.id],
         blit_back_bind_group |-> [texture |-> blit_back_texture.id]]

\* The three std::mem::swap calls that open a subframe (display.rs:522-533).
SwapTexturesOnly(rf) ==
    [rf EXCEPT !.blit_front_texture = rf.blit_back_texture,
               !.blit_back_texture = rf.blit_front_texture,
               !.blit_front_bind_group = rf.blit_back_bind_group,
               !.blit_back_bind_group = rf.blit_front_bind_group]

NoSwap(rf) == rf

\* The swap without that of the two blit bind groups.
SwapWithoutBlitGroups(rf) ==
    [rf EXCEPT !.blit_front_texture = rf.blit_back_texture,
               !.blit_back_texture = rf.blit_front_texture,
               !.sample_bind_group_front = rf.sample_bind_group_back,
               !.sample_bind_group_back = rf.sample_bind_group_front]

SwapFrontBack(rf) ==
    [rf EXCEPT !.blit_front_texture = rf.blit_back_texture,
               !.blit_back_texture = rf.blit_front_texture,
               !.blit_front_bind_group = rf.blit_back_bind_group,
               !.blit_back_bind_group = rf.blit_front_bind_group,
               !.sample_bind_group_front = rf.sample_bind_group_back,
               !.sample_bind_group_back = rf.sample_bind_group_front]

\* The second component of the uniform written before the downsample draw
\* (display.rs:600-606): the stale_camera argument of this render call, the
\* same for each of its subframes.  i is the loop index.
StaleOnFirstSubframeOnly(stale_camera, i) == stale_camera /\ i = 0

StaleUniform(stale_camera, i) == stale_camera

\* The downsample pass of shaders/downsample.wgsl, as the specification
\* describes it: with the stale flag the target receives the box-filtered
\* sample alone, without it the filtered sample blended with the history
\* texture.  A texture's content is the set of its contributions.
Downsample(stale, sample_content, history_content) ==
    IF stale THEN sample_content ELSE sample_content \cup history_content

\* One subframe of Display::render (display.rs:521-619) and the loop over
\* them.  gpu is [rf, content, log]: the RenderFrame, the content of its two
\* accumulation textures, and the commands issued so far in this call.  The
\* sample texture is cleared and drawn afresh, so its content is this
\* subframe's sample alone, named by the subframe's number i + 1.
RenderSubframe(gpu, scene, res, supersample, stale_camera, i) ==
    LET rf == SwapFrontBack(gpu.rf)
        target == rf.blit_front_texture.id
        group == rf.sample_bind_group_front
        stale == StaleUniform(stale_camera, i)
    IN  [rf |-> rf,
         content |-> [gpu.content EXCEPT
                        ![target] = Downsample(stale, {<<"sample", i + 1>>},
                                             gpu.content[group.history])],
         log |-> gpu.log \o
                 << [op |-> "swap"],
                    [op |-> "splat",
                     target |-> rf.sample_texture.id,
                     depth |-> rf.depth_texture.id,
                     width |-> Width(res) * supersample,
                     height |-> Height(res) * supersample,
                     seed |-> scene[1].t],
                    [op |-> "downsample",
                     target |-> target,
                     sample |-> group.sample,
                     history |-> group.history,
                     supersample |-> supersample,
                     stale |-> stale],
                    [op |-> "submit"] >>]

\* The loop run over 0..=subframe_count.
RECURSIVE RenderSubframesInclusive(_, _, _, _, _, _, _)
RenderSubframesInclusive(gpu, scene, res, supersample, subframe_count, stale_camera, i) ==
    IF i > subframe_count THEN gpu
    ELSE RenderSubframesInclusive(
             RenderSubframe(gpu, scene, res, supersample, stale_camera, i),
             scene, res, supersample, subframe_count, stale_camera, i + 1)

RECURSIVE RenderSubframes(_, _, _, _, _, _, _)
RenderSubframes(gpu, scene, res, supersample, subframe_count, stale_camera, i) ==
    IF i >= subframe_count THEN gpu
    ELSE RenderSubframes(RenderSubframe(gpu, scene, res, supersample, stale_camera, i),
                         scene, res, supersample, subframe_count, stale_camera, i + 1)

\* display.rs:710-727, the viewport of the composite, in f32 arithmetic.

\* An f32 is [s, m, e]: the sign s is -1, 0 or 1; for s # 0 the mantissa m
\* has 24 bits, 2^23 <= m < 2^24, and the value is s * m * 2^e.  The sizes
\* the application meets are far from the exponent's limits, and below 2^24,
\* so that `as f32` is exact.
MantissaBits == 24

MMax == 2 ^ MantissaBits

F32Zero == [s |-> 0, m |-> 0, e |-> 0]

\* The f32 nearest to q * 2^e, plus a non-zero amount below 2^e when sticky;
\* q > 0.  Ties go to the even mantissa.
RECURSIVE F32Round(_, _, _)
F32Round(q, sticky, e) ==
    IF q < MMax THEN F32Round(2 * q, sticky, e - 1)
    ELSE IF q >= 2 * MMax THEN F32Round(q \div 2, sticky \/ q % 2 = 1, e + 1)
    ELSE LET m == q \div 2
             up == q % 2 = 1 /\ (sticky \/ m % 2 = 1)
         IN  IF up /\ m + 1 = MMax
             THEN [s |-> 1, m |-> MMax \div 2, e |-> e + 2]
             ELSE [s |-> 1, m |-> IF up THEN m + 1 ELSE m, e |-> e + 1]

F32FromInt(n) == IF n = 0 THEN F32Zero ELSE F32Round(n, FALSE, 0)

\* Long division: n / d = (q + r / d) * 2^e with r < d, one quotient bit a
\* step until q has the mantissa's bits and a rounding bit.
RECURSIVE DivBits(_, _, _, _)
DivBits(q, r, d, e) ==
    IF q >= MMax THEN F32Round(q, r # 0, e)
    ELSE IF 2 * r >= d THEN DivBits(2 * q + 1, 2 * r - d, d, e - 1)
         ELSE DivBits(2 * q, 2 * r, d, e - 1)

\* a / b for a >= 0, b > 0.
F32Div(a, b) ==
    IF a.s = 0 THEN F32Zero
    ELSE LET q == DivBits(a.m \div b.m, a.m % b.m, b.m, 0)
         IN  [q EXCEPT !.e = @ + a.e - b.e]

\* x.ceil() as u32 for x >= 0 and below 2^31.
F32Ceil(x) ==
    IF x.s = 0 THEN 0
    ELSE IF x.e >= 0 THEN x.m * 2 ^ x.e
    ELSE IF 0 - x.e >= MantissaBits THEN 1
    ELSE (x.m + 2 ^ (0 - x.e) - 1) \div 2 ^ (0 - x.e)

\* a * b for a, b > 0: the 48-bit product of the mantissas from their 12-bit
\* halves, as H * 2^24 + L.
F32Mul(a, b) ==
    LET limb == 2 ^ (MantissaBits \div 2)
        ah == a.m \div limb
        al == a.m % limb
        bh == b.m \div limb
        bl == b.m % limb
        mid == ah * bl + al * bh
        lo == al * bl + (mid % limb) * limb
        L == lo % MMax
        H == ah * bh + mid \div limb + lo \div MMax
        top == MMax \div 2
    IN  IF H >= top
        THEN F32Round(2 * H + L \div top, L % top # 0, a.e + b.e + MantissaBits - 1)
        ELSE F32Round(4 * H + L \div (top \div 2), L % (top \div 2) # 0,
                      a.e + b.e + MantissaBits - 2)

\* a > b for a, b > 0.
F32Gt(a, b) == a.e > b.e \/ (a.e = b.e /\ a.m > b.m)

\* a - b for a, b > 0: the smaller operand is aligned to the larger with
\* three more bits, the last of them sticky.
F32Sub(a, b) ==
    IF a = b THEN F32Zero
    ELSE LET big == IF F32Gt(a, b) THEN a ELSE b
             small == IF F32Gt(a, b) THEN b ELSE a
             shift == big.e - small.e
             wide == 8 * small.m
             aligned == IF shift > MantissaBits + 3 THEN 0 ELSE wide \div (2 ^ shift)
             lost == IF shift > MantissaBits + 3 THEN TRUE ELSE wide % (2 ^ shift) # 0
             diff == 8 * big.m - aligned - (IF lost THEN 1 ELSE 0)
             r == F32Round(diff, lost, big.e - 3)
         IN  [r EXCEPT !.s = IF F32Gt(a, b) THEN 1 ELSE -1]

\* x / 2.0.
F32Half(x) == IF x.s = 0 THEN x ELSE [x EXCEPT !.e = @ - 1]

\* display.rs:711-727: the viewport [x, y, width, height] that the composite
\* is drawn into, for a frame and a canvas of positive sizes.
Letterbox(frame_width, frame_height, canvas_width, canvas_height) ==
    LET frame_aspect == F32Div(F32FromInt(frame_width), F32FromInt(frame_height))
        canvas_aspect == F32Div(F32FromInt(canvas_width), F32FromInt(canvas_height))
    IN  IF F32Gt(frame_aspect, canvas_aspect)
        THEN LET box_width == F32FromInt(canvas_width)
                 box_height == F32Div(F32FromInt(canvas_width), frame_aspect)
                 border == F32Half(F32Sub(F32FromInt(canvas_height), box_height))
             IN  [x |-> F32Zero, y |-> border, width |-> box_width, height |-> box_height]
        ELSE LET box_width == F32Mul(F32FromInt(canvas_height), frame_aspect)
                 box_height == F32FromInt(canvas_height)
                 border == F32Half(F32Sub(F32FromInt(canvas_width), box_width))
             IN  [x |-> border, y |-> F32Zero, width |-> box_width, height |-> box_height]

\* The inner sizes the window takes: three for the frame settings, two more
\* for the letterbox.
CanvasSizes == { <<800, 600>>, <<375, 812>>, <<2560, 1080>> }

WindowSizes == CanvasSizes \cup { <<1280, 600>>, <<1920, 900>> }

\* The five fixed entries of RenderResolution.
Presets == { Ws(name) : name \in {"Ws360P", "Ws720P", "Ws1080P", "Ws1440P", "Ws2160P"} }

FrameSizes == { <<Width(r), Height(r)>> : r \in Presets } \cup WindowSizes

\* Letterbox for every frame size and canvas size that occurs, computed once.
Viewports ==
    [frame \in FrameSizes, canvas \in WindowSizes |->
        Letterbox(frame[1], frame[2], canvas[1], canvas[2])]

\* FinishFrame with the composite drawn whether or not a Scene is loaded.
FinishFrameAlwaysComposites(gpu, scene, res, canvas_width, canvas_height) ==
    [gpu EXCEPT !.log = gpu.log \o
        << [op |-> "clear_surface"],
           [op |-> "composite",
            viewport |-> Viewports[<<Width(res), Height(res)>>, <<canvas_width, canvas_height>>],
            texture |-> gpu.rf.blit_front_bind_group.texture],
           [op |-> "ui"], [op |-> "submit"], [op |-> "present"] >>]

\* The rest of Display::render (display.rs:622-742): one pass onto the
\* surface that clears it, composites the front accumulation texture into the
\* letterbox viewport when a Scene is loaded and draws the UI, then the
\* submit and the present.
FinishFrame(gpu, scene, res, canvas_width, canvas_height) ==
    [gpu EXCEPT !.log = gpu.log \o
        << [op |-> "clear_surface"] >> \o
        (IF scene # None
         THEN << [op |-> "composite",
                  viewport |-> Viewports[<<Width(res), Height(res)>>,
                                         <<canvas_width, canvas_height>>],
                  texture |-> gpu.rf.blit_front_bind_group.texture] >>
         ELSE << >>) \o
        << [op |-> "ui"], [op |-> "submit"], [op |-> "present"] >>]

\* Display::render (display.rs:494-742).
render(rf, content, scene, res, supersample, canvas_width, canvas_height, subframe_count, stale_camera) ==
    LET gpu0 == [rf |-> rf, content |-> content, log |-> << >>]
        gpu1 == IF scene # None
                THEN RenderSubframes(gpu0, scene, res, supersample,
                                     subframe_count, stale_camera, 0)
                ELSE gpu0
    IN  FinishFrame(gpu1, scene, res, canvas_width, canvas_height)

(***************************************************************************)
(* Part 3: gui.rs, the pacer step of show_gui.                             *)
(***************************************************************************)

\* Times are in units of 0.1 ms: 1.0 / 60.0 s, 0.015 s, 0.018 s, 0.025 s.
InitialAvgFrameTime == 167

FirstDt == 150

LowWater == 180

HighWater == 250

\* gui.rs:19-34.  delta is now - last_frame_time; the result is the new
\* [avg_frame_time, subframe_count].
PacerForgetsCount(avg_frame_time, subframe_count, last_frame_time, delta, scene_loaded) ==
    LET dt == IF last_frame_time = "Some" THEN delta \div subframe_count ELSE FirstDt
        avg == (9 * avg_frame_time + dt) \div 10
        real_frame_time == avg
    IN  [avg_frame_time |-> avg,
         subframe_count |->
            IF real_frame_time < LowWater /\ scene_loaded THEN subframe_count + 1
            ELSE IF real_frame_time > HighWater /\ subframe_count > 1
                 THEN subframe_count - 1
            ELSE subframe_count]

\* The pacer step run twice in one show_gui call.
PacerTwice(avg_frame_time, subframe_count, last_frame_time, delta, scene_loaded) ==
    LET dt == IF last_frame_time = "Some" THEN delta \div subframe_count ELSE FirstDt
        Step(avg_before, count) ==
            LET avg == (9 * avg_before + dt) \div 10
                real_frame_time == avg * count
            IN  [avg_frame_time |-> avg,
                 subframe_count |->
                    IF real_frame_time < LowWater /\ scene_loaded THEN count + 1
                    ELSE IF real_frame_time > HighWater /\ count > 1 THEN count - 1
                    ELSE count]
        first == Step(avg_frame_time, subframe_count)
    IN  Step(first.avg_frame_time, first.subframe_count)

PacerWholeDelta(avg_frame_time, subframe_count, last_frame_time, delta, scene_loaded) ==
    LET dt == IF last_frame_time = "Some" THEN delta ELSE FirstDt
        avg == (9 * avg_frame_time + dt) \div 10
        real_frame_time == avg * subframe_count
    IN  [avg_frame_time |-> avg,
         subframe_count |->
            IF real_frame_time < LowWater /\ scene_loaded THEN subframe_count + 1
            ELSE IF real_frame_time > HighWater /\ subframe_count > 1
                 THEN subframe_count - 1
            ELSE subframe_count]

PacerStaleAverage(avg_frame_time, subframe_count, last_frame_time, delta, scene_loaded) ==
    LET dt == IF last_frame_time = "Some" THEN delta \div subframe_count ELSE FirstDt
        avg == (9 * avg_frame_time + dt) \div 10
        real_frame_time == avg_frame_time * subframe_count
    IN  [avg_frame_time |-> avg,
         subframe_count |->
            IF real_frame_time < LowWater /\ scene_loaded THEN subframe_count + 1
            ELSE IF real_frame_time > HighWater /\ subframe_count > 1
                 THEN subframe_count - 1
            ELSE subframe_count]

DecrementUnguarded(avg_frame_time, subframe_count, last_frame_time, delta, scene_loaded) ==
    LET dt == IF last_frame_time = "Some" THEN delta \div subframe_count ELSE FirstDt
        avg == (9 * avg_frame_time + dt) \div 10
        real_frame_time == avg * subframe_count
    IN  [avg_frame_time |-> avg,
         subframe_count |->
            IF real_frame_time < LowWater /\ scene_loaded THEN subframe_count + 1
            ELSE IF real_frame_time > HighWater THEN subframe_count - 1
            ELSE subframe_count]

Pacer(avg_frame_time, subframe_count, last_frame_time, delta, scene_loaded) ==
    LET dt == IF last_frame_time = "Some" THEN delta \div subframe_count ELSE FirstDt
        avg == (9 * avg_frame_time + dt) \div 10
        real_frame_time == avg * subframe_count
    IN  [avg_frame_time |-> avg,
         subframe_count |->
            IF real_frame_time < LowWater /\ scene_loaded THEN subframe_count + 1
            ELSE IF real_frame_time > HighWater /\ subframe_count > 1
                 THEN subframe_count - 1
            ELSE subframe_count]

(***************************************************************************)
(* Part 4: lib.rs, the application state and its handlers.                 *)
(***************************************************************************)

VARIABLES
    \* AppState (lib.rs:21-44)
    scene,              \* Option of [src, num_tris, t]; src is the task that loaded it
    render_resolution,
    supersample,
    render_frame,
    last_frame_time,    \* "None" or "Some"; only differences of times matter
    subframe_count,
    avg_frame_time,     \* units of 0.1 ms
    panel_open,
    chooser_open,
    file_hovered,
    loading,
    paused,
    progress_bar,       \* [progress (percent), status]
    error_message,      \* "None" or the text
    azimuth,            \* units of 0.0005 rad
    elevation,          \* units of 0.0005 rad
    prev_mouse_pos,     \* units of 1/20 pixel
    mouse_dragging,
    zoom,               \* 3.0 * 1.01 ^ (zoom / 10)
    stale_camera,
    \* the rest of the program
    tasks,              \* the load tasks spawned so far, in spawn order
    overflow_checks,    \* the build: TRUE panics on integer overflow
    aborted,            \* a panic has stopped the program
    inner_size,         \* the window's inner size <<width, height>>, in pixels
    upload,             \* Option of the latest upload_texture call's progress
    frames_created,     \* calls of create_render_frame so far
    content,            \* content of the two accumulation textures, by id
    \* what the latest RedrawRequested did
    gpu_log,            \* the commands of its Display::render call
    render_call,        \* Option of that call's [count_before, subframe_count, scene_src,
                        \* stale_camera, scene_loaded, recreated, written_before]
    written             \* Option of the accumulation texture that the latest
                        \* subframe on this RenderFrame wrote

app_vars == <<scene, render_resolution, supersample, render_frame, last_frame_time,
              subframe_count, avg_frame_time, panel_open, chooser_open, file_hovered,
              loading, paused, progress_bar, error_message, azimuth, elevation,
              prev_mouse_pos, mouse_dragging, zoom, stale_camera>>

vars == <<app_vars, tasks, overflow_checks, aborted, frames_created, content,
          gpu_log, render_call, written, inner_size, upload>>

\* A texture's content is the set of its contributions: <<"sample", i>> is
\* the filtered sample of subframe i of the current displayed frame,
\* <<"prior", 0>> what earlier displayed frames rendered, <<"fresh", 0>> what
\* a texture holds when it is created.
FreshContent(rf) ==
    [id \in {rf.blit_front_texture.id, rf.blit_back_texture.id} |-> {<<"fresh", 0>>}]

\* At the start of a displayed frame, whatever the textures hold is from
\* before the frame.
Prior(c) ==
    [id \in DOMAIN c |->
        {tag \in c[id] : tag[1] # "sample"} \cup
        (IF \E tag \in c[id] : tag[1] = "sample" THEN {<<"prior", 0>>} ELSE {})]

InitialAzimuth == -1440

InitialElevation == 640

\* The size of the window when the application starts.
InitialInnerSize == <<800, 600>>

\* App::new (lib.rs:64-110).
InitApp ==
    /\ scene = None
    /\ render_resolution = Ws("Ws1080P")
    /\ supersample = 1
    /\ render_frame = create_render_frame(Ws("Ws1080P"), 1, 0)
    /\ last_frame_time = "None"
    /\ subframe_count = 1
    /\ avg_frame_time = InitialAvgFrameTime
    /\ panel_open = TRUE
    /\ chooser_open = TRUE
    /\ file_hovered = FALSE
    /\ loading = FALSE
    /\ paused = FALSE
    /\ progress_bar = [progress |-> 0, status |-> ""]
    /\ error_message = "None"
    /\ azimuth = InitialAzimuth
    /\ elevation = InitialElevation
    /\ prev_mouse_pos = <<0, 0>>
    /\ mouse_dragging = FALSE
    /\ zoom = 0
    /\ stale_camera = TRUE
    /\ tasks = << >>
    /\ aborted = FALSE
    /\ frames_created = 1
    /\ content = FreshContent(create_render_frame(Ws("Ws1080P"), 1, 0))
    /\ gpu_log = << >>
    /\ render_call = None
    /\ written = None
    /\ inner_size = InitialInnerSize
    /\ upload = None

Init == InitApp /\ overflow_checks = FALSE

Abs(x) == IF x < 0 THEN -x ELSE x

\* Bounds of the exploration: how far the camera is taken from its initial
\* pose, and how many loads, RenderFrames, subframes and unpaused frames of
\* one Scene a behaviour holds.
MaxTurn == 4

MaxZoom == 10

MaxLoads == 2

MaxFrames == 2

MaxSubframes == 3

MaxT == 3

\* if delta_x.abs() > 0.1 || delta_y.abs() > 0.1 (lib.rs:285), in 1/20 pixel.
DragThreshold == 2

\* WindowEvent::CursorMoved (lib.rs:272-291).
CursorMoved(position) ==
    LET delta_x == position[1] - prev_mouse_pos[1]
        delta_y == position[2] - prev_mouse_pos[2]
    IN  /\ ~aborted
        /\ IF mouse_dragging
           THEN /\ azimuth' = azimuth - delta_x
                /\ elevation' = elevation + delta_y
                /\ stale_camera' =
                      IF Abs(delta_x) > DragThreshold \/ Abs(delta_y) > DragThreshold
                      THEN TRUE ELSE stale_camera
           ELSE UNCHANGED <<azimuth, elevation, stale_camera>>
        /\ Abs(azimuth' - InitialAzimuth) <= MaxTurn
        /\ Abs(elevation' - InitialElevation) <= MaxTurn
        /\ prev_mouse_pos' = position
        /\ UNCHANGED <<scene, render_resolution, supersample, render_frame,
                       last_frame_time, subframe_count, avg_frame_time, panel_open,
                       chooser_open, file_hovered, loading, paused, progress_bar,
                       error_message, mouse_dragging, zoom>>
        /\ UNCHANGED <<tasks, overflow_checks, aborted, frames_created, content,
                       gpu_log, render_call, written, inner_size, upload>>

\* WindowEvent::MouseWheel (lib.rs:292-307).  delta is [kind, y]:
\* LineDelta(_, y) multiplies zoom by 1.01^y, PixelDelta(pos) by
\* 1.01^(-pos.y / 10).
MouseWheel(delta) ==
    /\ ~aborted
    /\ zoom' = IF delta.kind = "LineDelta" THEN zoom + 10 * delta.y ELSE zoom - delta.y
    /\ Abs(zoom') <= MaxZoom
    /\ stale_camera' = TRUE
    /\ UNCHANGED <<scene, render_resolution, supersample, render_frame,
                   last_frame_time, subframe_count, avg_frame_time, panel_open,
                   chooser_open, file_hovered, loading, paused, progress_bar,
                   error_message, azimuth, elevation, prev_mouse_pos, mouse_dragging>>
    /\ UNCHANGED <<tasks, overflow_checks, aborted, frames_created, content,
                   gpu_log, render_call, written, inner_size, upload>>

\* WindowEvent::MouseInput (lib.rs:308-321).
MouseInput(button, pressed) ==
    /\ ~aborted
    /\ mouse_dragging' = IF button = "Left" THEN pressed ELSE mouse_dragging
    /\ UNCHANGED <<scene, render_resolution, supersample, render_frame,
                   last_frame_time, subframe_count, avg_frame_time, panel_open,
                   chooser_open, file_hovered, loading, paused, progress_bar,
                   error_message, azimuth, elevation, prev_mouse_pos, zoom,
                   stale_camera>>
    /\ UNCHANGED <<tasks, overflow_checks, aborted, frames_created, content,
                   gpu_log, render_call, written, inner_size, upload>>

\* The canvas's dragenter and dragleave handlers (lib.rs:223-241).
OnDragEnter ==
    /\ ~aborted
    /\ file_hovered' = TRUE
    /\ UNCHANGED <<scene, render_resolution, supersample, render_frame,
                   last_frame_time, subframe_count, avg_frame_time, panel_open,
                   chooser_open, loading, paused, progress_bar, error_message,
                   azimuth, elevation, prev_mouse_pos, mouse_dragging, zoom,
                   stale_camera>>
    /\ UNCHANGED <<tasks, overflow_checks, aborted, frames_created, content,
                   gpu_log, render_call, written, inner_size, upload>>

OnDragLeave ==
    /\ ~aborted
    /\ file_hovered' = FALSE
    /\ UNCHANGED <<scene, render_resolution, supersample, render_frame,
                   last_frame_time, subframe_count, avg_frame_time, panel_open,
                   chooser_open, loading, paused, progress_bar, error_message,
                   azimuth, elevation, prev_mouse_pos, mouse_dragging, zoom,
                   stale_camera>>
    /\ UNCHANGED <<tasks, overflow_checks, aborted, frames_created, content,
                   gpu_log, render_call, written, inner_size, upload>>

\* A load task is [pc, kind, stream, result]: kind is "file" or "url", stream
\* an Option, result what read_tsplat returned; pc is where it is suspended:
\*   "spawned"   spawn_local has queued it, it has not run yet
\*   "fetching"  load_url awaits the response
\*   "reading"   read_tsplat awaits the stream
\*   "uploading" Scene::new awaits its uploads
\*   "done"      it returned
NewTask(kind, stream) ==
    [pc |-> "spawned", kind |-> kind, stream |-> stream, result |-> [kind |-> "Pending"]]

\* The canvas's drop handler (lib.rs:194-221) for a dropped file, with
\* AppState::begin_loading (lib.rs:47-54).
OnDrop(stream) ==
    /\ ~aborted
    /\ Len(tasks) < MaxLoads
    /\ file_hovered' = FALSE
    /\ chooser_open' = FALSE
    /\ loading' = TRUE
    /\ progress_bar' = [progress |-> 0, status |-> "fetching scene data"]
    /\ tasks' = Append(tasks, NewTask("file", Some(stream)))
    /\ UNCHANGED <<scene, render_resolution, supersample, render_frame,
                   last_frame_time, subframe_count, avg_frame_time, panel_open,
                   paused, error_message, azimuth, elevation, prev_mouse_pos,
                   mouse_dragging, zoom, stale_camera>>
    /\ UNCHANGED <<overflow_checks, aborted, frames_created, content,
                   gpu_log, render_call, written, inner_size, upload>>

\* The first run of a spawned task, up to its first await.  The task of a
\* dropped file enters load_scene and read_tsplat (lib.rs:209-211,
\* load.rs:22); the task of the scene chooser calls begin_loading and awaits
\* the fetch (gui.rs:263-266, lib.rs:137-142).
TaskStart(i) ==
    /\ ~aborted
    /\ i \in 1..Len(tasks)
    /\ tasks[i].pc = "spawned"
    /\ IF tasks[i].kind = "file"
       THEN /\ tasks' = [tasks EXCEPT ![i].pc = "reading"]
            /\ progress_bar' = [progress_bar EXCEPT !.status = "downloading model"]
            /\ UNCHANGED <<file_hovered, chooser_open, loading>>
       ELSE /\ tasks' = [tasks EXCEPT ![i].pc = "fetching"]
            /\ file_hovered' = FALSE
            /\ chooser_open' = FALSE
            /\ loading' = TRUE
            /\ progress_bar' = [progress |-> 0, status |-> "fetching scene data"]
    /\ UNCHANGED <<scene, render_resolution, supersample, render_frame,
                   last_frame_time, subframe_count, avg_frame_time, panel_open,
                   paused, error_message, azimuth, elevation, prev_mouse_pos,
                   mouse_dragging, zoom, stale_camera>>
    /\ UNCHANGED <<overflow_checks, aborted, frames_created, content,
                   gpu_log, render_call, written, inner_size, upload>>

\* The fetch of load_url fails, and the task reports it through show_err
\* (lib.rs:137-154, 160-164, gui.rs:265-269).
FetchFailed(i) ==
    /\ ~aborted
    /\ i \in 1..Len(tasks)
    /\ tasks[i].pc = "fetching"
    /\ tasks' = [tasks EXCEPT ![i].pc = "done",
                              ![i].result = Err("could not fetch scene data")]
    /\ loading' = FALSE
    /\ error_message' = "could not fetch scene data"
    /\ UNCHANGED <<scene, render_resolution, supersample, render_frame,
                   last_frame_time, subframe_count, avg_frame_time, panel_open,
                   chooser_open, file_hovered, paused, progress_bar, azimuth,
                   elevation, prev_mouse_pos, mouse_dragging, zoom, stale_camera>>
    /\ UNCHANGED <<overflow_checks, aborted, frames_created, content,
                   gpu_log, render_call, written, inner_size, upload>>

\* The fetch delivers a response body; load_url enters load_scene and
\* read_tsplat, which awaits its first status update (lib.rs:152-157,
\* load.rs:22).
FetchOk(i, stream) ==
    /\ ~aborted
    /\ i \in 1..Len(tasks)
    /\ tasks[i].pc = "fetching"
    /\ tasks' = [tasks EXCEPT ![i].pc = "reading", ![i].stream = Some(stream)]
    /\ progress_bar' = [progress_bar EXCEPT !.status = "downloading model"]
    /\ UNCHANGED <<scene, render_resolution, supersample, render_frame,
                   last_frame_time, subframe_count, avg_frame_time, panel_open,
                   chooser_open, file_hovered, loading, paused, error_message,
                   azimuth, elevation, prev_mouse_pos, mouse_dragging, zoom,
                   stale_camera>>
    /\ UNCHANGED <<overflow_checks, aborted, frames_created, content,
                   gpu_log, render_call, written, inner_size, upload>>

\* scene.rs:17-18.
TEXTURE_WIDTH == 8192

ROWS_PER_CHUNK == 64

\* scene.rs:20-25, get_padded_wh: count and the chunk size are converted to
\* f32, divided, and the ceiling of the quotient is the number of chunks.
get_padded_wh(count) ==
    LET w == TEXTURE_WIDTH
        num_chunks == F32Ceil(F32Div(F32FromInt(count),
                                     F32FromInt(w * ROWS_PER_CHUNK)))
        h == num_chunks * ROWS_PER_CHUNK
    IN  <<w, h>>

\* The last progress value upload_texture reports for the color texture
\* (scene.rs:64-102, 181-189), in percent; none when there is no chunk.
UploadProgress(num_tris, before) ==
    LET num_chunks == get_padded_wh(num_tris)[2] \div ROWS_PER_CHUNK
    IN  IF num_chunks = 0 THEN before
        ELSE 82 + (18 * (num_chunks - 1)) \div num_chunks

\* read_tsplat returns (lib.rs:125, load.rs:26-127).  On Err, load_scene
\* returns it and the task calls show_err (lib.rs:160-164); on Ok, load_scene
\* enters Scene::new, which awaits its first status update (scene.rs:159); a
\* panic stops the program.
ReadDoneInstallsEarly(i) ==
    LET r == read_tsplat(tasks[i].stream[1], overflow_checks)
    IN  /\ ~aborted
        /\ i \in 1..Len(tasks)
        /\ tasks[i].pc = "reading"
        /\ CASE r.kind = "Err" ->
                  /\ tasks' = [tasks EXCEPT ![i].pc = "done", ![i].result = r]
                  /\ loading' = FALSE
                  /\ error_message' = r.msg
                  /\ UNCHANGED <<progress_bar, aborted, scene>>
             [] r.kind = "Panic" ->
                  /\ tasks' = [tasks EXCEPT ![i].pc = "panicked", ![i].result = r]
                  /\ aborted' = TRUE
                  /\ UNCHANGED <<loading, error_message, progress_bar, scene>>
             [] r.kind = "Ok" ->
                  /\ tasks' = [tasks EXCEPT ![i].pc = "uploading", ![i].result = r]
                  /\ scene' = Some([src |-> i, num_tris |-> Len(r.points), t |-> 0])
                  /\ progress_bar' =
                        [progress_bar EXCEPT !.status = "uploading vertices to gpu"]
                  /\ UNCHANGED <<loading, error_message, aborted>>
        /\ UNCHANGED <<render_resolution, supersample, render_frame,
                       last_frame_time, subframe_count, avg_frame_time, panel_open,
                       chooser_open, file_hovered, paused, azimuth, elevation,
                       prev_mouse_pos, mouse_dragging, zoom, stale_camera>>
        /\ UNCHANGED <<overflow_checks, frames_created, content, gpu_log,
                       render_call, written, inner_size, upload>>

ReadDone(i) ==
    LET r == read_tsplat(tasks[i].stream[1], overflow_checks)
    IN  /\ ~aborted
        /\ i \in 1..Len(tasks)
        /\ tasks[i].pc = "reading"
        /\ CASE r.kind = "Err" ->
                  /\ tasks' = [tasks EXCEPT ![i].pc = "done", ![i].result = r]
                  /\ loading' = FALSE
                  /\ error_message' = r.msg
                  /\ UNCHANGED <<progress_bar, aborted>>
             [] r.kind = "Panic" ->
                  /\ tasks' = [tasks EXCEPT ![i].pc = "panicked", ![i].result = r]
                  /\ aborted' = TRUE
                  /\ UNCHANGED <<loading, error_message, progress_bar>>
             [] r.kind = "Ok" ->
                  /\ tasks' = [tasks EXCEPT ![i].pc = "uploading", ![i].result = r]
                  /\ progress_bar' =
                        [progress_bar EXCEPT !.status = "uploading vertices to gpu"]
                  /\ UNCHANGED <<loading, error_message, aborted>>
        /\ UNCHANGED <<scene, render_resolution, supersample, render_frame,
                       last_frame_time, subframe_count, avg_frame_time, panel_open,
                       chooser_open, file_hovered, paused, azimuth, elevation,
                       prev_mouse_pos, mouse_dragging, zoom, stale_camera>>
        /\ UNCHANGED <<overflow_checks, frames_created, content, gpu_log,
                       render_call, written, inner_size, upload>>

\* SceneNewDone with the flag of lib.rs:132 written as false.
SceneNewDoneClearsStale(i) ==
    /\ ~aborted
    /\ i \in 1..Len(tasks)
    /\ tasks[i].pc = "uploading"
    /\ tasks' = [tasks EXCEPT ![i].pc = "done"]
    /\ progress_bar' =
          [progress |-> UploadProgress(Len(tasks[i].result.points), progress_bar.progress),
           status |-> "compiling shaders"]
    /\ scene' = Some([src |-> i, num_tris |-> Len(tasks[i].result.points), t |-> 0])
    /\ loading' = FALSE
    /\ stale_camera' = FALSE
    /\ UNCHANGED <<render_resolution, supersample, render_frame, last_frame_time,
                   subframe_count, avg_frame_time, panel_open, chooser_open,
                   file_hovered, paused, error_message, azimuth, elevation,
                   prev_mouse_pos, mouse_dragging, zoom>>
    /\ UNCHANGED <<overflow_checks, aborted, frames_created, content,
                   gpu_log, render_call, written, inner_size, upload>>

\* Scene::new returns Ok (scene.rs:141-371; it has no Err path) and
\* load_scene installs the Scene (lib.rs:127-134).
SceneNewDone(i) ==
    /\ ~aborted
    /\ i \in 1..Len(tasks)
    /\ tasks[i].pc = "uploading"
    /\ tasks' = [tasks EXCEPT ![i].pc = "done"]
    /\ progress_bar' =
          [progress |-> UploadProgress(Len(tasks[i].result.points), progress_bar.progress),
           status |-> "compiling shaders"]
    /\ scene' = Some([src |-> i, num_tris |-> Len(tasks[i].result.points), t |-> 0])
    /\ loading' = FALSE
    /\ stale_camera' = TRUE
    /\ UNCHANGED <<render_resolution, supersample, render_frame, last_frame_time,
                   subframe_count, avg_frame_time, panel_open, chooser_open,
                   file_hovered, paused, error_message, azimuth, elevation,
                   prev_mouse_pos, mouse_dragging, zoom>>
    /\ UNCHANGED <<overflow_checks, aborted, frames_created, content,
                   gpu_log, render_call, written, inner_size, upload>>

\* What the user does in the UI during one show_gui call.
NoInput ==
    [file_button |-> FALSE, pause_button |-> FALSE, panel_button |-> FALSE,
     resolution |-> Ws("keep"), samples |-> 0, selected_url |-> "",
     close_chooser |-> FALSE, close_error |-> FALSE]

DownsampleTargets(log) ==
    LET passes == SelectSeq(log, LAMBDA c : c.op = "downsample")
    IN  [j \in 1..Len(passes) |-> passes[j].target]

\* The counter advanced whether or not the application is paused.
AdvanceTimeAlways(loaded, is_paused) ==
    IF loaded # None THEN Some([loaded[1] EXCEPT !.t = @ + 1]) ELSE loaded

\* lib.rs:339-345: the Scene's counter t advances by one unless paused.
AdvanceTime(loaded, is_paused) ==
    IF loaded # None /\ ~is_paused
    THEN Some([loaded[1] EXCEPT !.t = @ + 1]) ELSE loaded

\* The test with the supersample factor left out.
ResolutionChanged(prev_res, prev_supersample, new_res, new_supersample) ==
    new_res # prev_res

\* lib.rs:333: the settings after show_gui differ from those before it.
NeedsNewFrame(prev_res, prev_supersample, new_res, new_supersample) ==
    new_res # prev_res \/ new_supersample # prev_supersample

\* WindowEvent::RedrawRequested (lib.rs:322-365) with gui::show_gui
\* (gui.rs:14-322) and Display::render.  delta is the time since the
\* previous show_gui call.
RedrawRequested(gui, delta) ==
    LET pacer == Pacer(avg_frame_time, subframe_count, last_frame_time, delta,
                       scene # None)
        \* the panel's buttons and, when the panel is open, its combo boxes
        chooser1 == IF gui.file_button THEN ~chooser_open ELSE chooser_open
        paused1 == IF gui.pause_button THEN ~paused ELSE paused
        panel1 == IF gui.panel_button THEN ~panel_open ELSE panel_open
        new_res == IF panel1 /\ gui.resolution.name # "keep"
                   THEN gui.resolution ELSE render_resolution
        new_supersample == IF panel1 /\ gui.samples # 0
                           THEN gui.samples ELSE supersample
        \* the scene chooser and the error window
        spawn == chooser1 /\ gui.selected_url # ""
        chooser2 == IF chooser1 /\ gui.close_chooser THEN FALSE ELSE chooser1
        error1 == IF error_message # "None" /\ gui.close_error
                  THEN "None" ELSE error_message
        \* lib.rs:331-338
        recreate == NeedsNewFrame(render_resolution, supersample, new_res, new_supersample)
        new_frame == IF recreate
                     THEN create_render_frame(new_res, new_supersample, frames_created)
                     ELSE render_frame
        content1 == IF recreate THEN FreshContent(new_frame) ELSE Prior(content)
        stale1 == IF recreate THEN TRUE ELSE stale_camera
        written1 == IF recreate THEN None ELSE written
        \* lib.rs:340-345
        scene1 == AdvanceTime(scene, paused1)
        \* lib.rs:346-359
        out == render(new_frame, content1, scene1, new_res, new_supersample,
                      inner_size[1], inner_size[2],
                      pacer.subframe_count, stale1)
        targets == DownsampleTargets(out.log)
    IN  /\ ~aborted
        \* gui.rs:36-38, 189-193: the combo box offers the native entry at
        \* the window's current inner size
        /\ gui.resolution.name = "Native" =>
               gui.resolution = Native(inner_size[1], inner_size[2])
        /\ pacer.subframe_count <= MaxSubframes
        /\ scene1 # None => scene1[1].t <= MaxT
        /\ recreate => frames_created < MaxFrames
        /\ spawn => Len(tasks) < MaxLoads
        /\ last_frame_time' = "Some"
        /\ avg_frame_time' = pacer.avg_frame_time
        /\ subframe_count' = pacer.subframe_count
        /\ chooser_open' = chooser2
        /\ paused' = paused1
        /\ panel_open' = panel1
        /\ render_resolution' = new_res
        /\ supersample' = new_supersample
        /\ error_message' = error1
        /\ tasks' = IF spawn THEN Append(tasks, NewTask("url", None)) ELSE tasks
        /\ frames_created' = IF recreate THEN frames_created + 1 ELSE frames_created
        /\ scene' = scene1
        /\ stale_camera' = FALSE
        /\ render_frame' = out.rf
        /\ content' = out.content
        /\ gpu_log' = out.log
        /\ render_call' = Some([count_before |-> subframe_count,
                                subframe_count |-> pacer.subframe_count,
                                stale_camera |-> stale1,
                                scene_loaded |-> scene1 # None,
                                scene_src |-> IF scene1 = None THEN 0 ELSE scene1[1].src,
                                recreated |-> recreate,
                                canvas_width |-> inner_size[1],
                                canvas_height |-> inner_size[2],
                                written_before |-> written1])
        /\ written' = IF targets = << >> THEN written1 ELSE Some(targets[Len(targets)])
        /\ UNCHANGED <<file_hovered, loading, progress_bar, azimuth, elevation,
                       prev_mouse_pos, mouse_dragging, zoom>>
        /\ UNCHANGED <<overflow_checks, aborted, inner_size, upload>>

\* The browser gives the canvas a new size; the handler ignores the event
\* (lib.rs:366) and the next redraw reads the size from the window.
WindowResized(size) ==
    /\ ~aborted
    /\ size # inner_size
    /\ inner_size' = size
    /\ UNCHANGED <<scene, loading, progress_bar, error_message, file_hovered,
                   chooser_open, paused, panel_open, render_resolution,
                   supersample, subframe_count, avg_frame_time, last_frame_time,
                   stale_camera, azimuth, elevation, zoom, prev_mouse_pos,
                   mouse_dragging, render_frame, content, frames_created, tasks,
                   overflow_checks, aborted, gpu_log, render_call, written,
                   upload>>

\* upload_texture (scene.rs:27-62) up to its loop: the texture is created
\* at the padded extent and nothing has been written.  records counts the
\* items taken from iter so far, zeros the zeroed texels taken after them,
\* chunk the iterations of the loop that have run.
UploadStart(count) ==
    /\ ~aborted
    /\ upload # None => upload[1].pc = "done"
    /\ upload' = Some([num_texels |-> count,
                       w |-> get_padded_wh(count)[1],
                       h |-> get_padded_wh(count)[2],
                       chunk |-> 0, records |-> 0, zeros |-> 0, pc |-> "loop"])
    /\ UNCHANGED <<app_vars, tasks, overflow_checks, aborted, frames_created,
                   content, gpu_log, render_call, written, inner_size>>

\* One iteration of the loop of upload_texture (scene.rs:64-99): the next
\* w * ROWS_PER_CHUNK items of iter chained with zeroed texels are written to
\* the rows from chunk * ROWS_PER_CHUNK on.
UploadChunk ==
    /\ ~aborted
    /\ upload # None
    /\ upload[1].pc = "loop"
    /\ upload[1].chunk < upload[1].h \div ROWS_PER_CHUNK
    /\ LET u == upload[1]
           per_chunk == u.w * ROWS_PER_CHUNK
           left == u.num_texels - u.records
           taken == IF left < per_chunk THEN left ELSE per_chunk
       IN  upload' = Some([u EXCEPT !.chunk = @ + 1,
                                    !.records = @ + taken,
                                    !.zeros = @ + per_chunk - taken])
    /\ UNCHANGED <<app_vars, tasks, overflow_checks, aborted, frames_created,
                   content, gpu_log, render_call, written, inner_size>>

\* The loop of upload_texture has run num_chunks times and the texture is
\* returned (scene.rs:62-64, 101).
UploadReturn ==
    /\ ~aborted
    /\ upload # None
    /\ upload[1].pc = "loop"
    /\ upload[1].chunk = upload[1].h \div ROWS_PER_CHUNK
    /\ upload' = Some([upload[1] EXCEPT !.pc = "done"])
    /\ UNCHANGED <<app_vars, tasks, overflow_checks, aborted, frames_created,
                   content, gpu_log, render_call, written, inner_size>>

(***************************************************************************)
(* Part 5: the inputs of the environment and the specifications.           *)
(***************************************************************************)

HeaderLine == MAGIC \o <<"\n">>

\* The triangles of the model's streams.
Origin == <<0, 0, 0>>

Tris == { <<Origin, Origin, Origin>>,
          <<<<3, 0, 0>>, Origin, Origin>>,
          <<Origin, Origin, <<0, 9, 0>>>>,
          <<Origin, <<0, 3, 0>>, <<3, 0, 0>>>> }

RECURSIVE SeqsUpTo(_, _)
SeqsUpTo(S, n) ==
    IF n = 0 THEN { << >> }
    ELSE LET shorter == SeqsUpTo(S, n - 1)
         IN  shorter \cup { Append(q, x) : q \in {r \in shorter : Len(r) = n - 1}, x \in S }

\* The payload for a sequence of triangles: the (alpha, spread) and color
\* records of triangle i carry i, so each record names its triangle.
Body(pts) ==
    [i \in 1..Len(pts) |-> [pts |-> pts[i], alpha_sigma |-> <<i, 0>>, dc |-> <<i, i, i>>]]

WellFormed(pts) ==
    [line |-> HeaderLine, count |-> <<U(Len(pts))>>, body |-> Body(pts), missing |-> 0]

WellFormedStreams == { WellFormed(pts) : pts \in SeqsUpTo(Tris, MaxTris) }

\* Streams cut one byte before the end of the payload, and right after the
\* count.
TruncatedStreams ==
    { [w EXCEPT !.missing = m] :
        w \in {x \in WellFormedStreams : Len(x.body) \in 1..2},
        m \in {1, BytesPerTri} }

\* Streams that end inside the count, or inside or before the header line.
ShortStreams ==
    { [line |-> l, count |-> << >>, body |-> << >>, missing |-> 0] :
        l \in { HeaderLine, MAGIC, << >>, <<"T", "S", "P", "L", "A">> } }

\* Streams whose first line is not the header line.
OtherHeaderStreams ==
    { [WellFormed(<<pt>>) EXCEPT !.line = l] :
        pt \in {<<Origin, Origin, Origin>>},
        l \in { <<" ">> \o MAGIC \o <<"\r", "\n">>,
                <<"t", "s", "p", "l", "a", "t", "\n">>,
                MAGIC \o <<"2", "\n">>,
                <<BadByte, "\n">> } }

\* Streams that declare 2^31 + k triangles and deliver the payload of k.
HugeCountStreams ==
    { [w EXCEPT !.count = <<[hi |-> Half \div 2, lo |-> Len(w.body)]>>] :
        w \in {x \in WellFormedStreams : Len(x.body) <= 1} }

\* Well-formed streams with a NaN among the position values.
NaNTri == <<<<NaN, 0, 0>>, Origin, Origin>>

NaNStreams ==
    { WellFormed(pts) : pts \in { <<NaNTri>>,
                                  <<NaNTri, <<Origin, Origin, Origin>>>>,
                                  <<<<<<3, 0, 0>>, Origin, Origin>>, NaNTri>> } }

LoadStreams ==
    WellFormedStreams \cup TruncatedStreams \cup ShortStreams
        \cup OtherHeaderStreams \cup HugeCountStreams \cup NaNStreams

\* The loader alone: one dropped file, in either build.
InitLoad == InitApp /\ overflow_checks \in BOOLEAN

NextLoad ==
    \/ \E stream \in LoadStreams : tasks = << >> /\ OnDrop(stream)
    \/ \E i \in 1..MaxLoads : TaskStart(i)
    \/ \E i \in 1..MaxLoads : ReadDone(i)
    \/ \E i \in 1..MaxLoads : SceneNewDone(i)

SpecLoad == InitLoad /\ [][NextLoad]_vars

\* The streams the application is given in the specifications below: a
\* well-formed one of one triangle, a truncated one and one with a wrong
\* header.
OneTriangle == WellFormed(<< <<<<3, 0, 0>>, Origin, Origin>> >>)

AppStreams ==
    { OneTriangle,
      [OneTriangle EXCEPT !.missing = 1],
      [OneTriangle EXCEPT !.line = <<"t", "s", "p", "l", "a", "t", "\n">>] }

\* Time between two redraws, in units of 0.1 ms.
FrameDeltas == { 167 }

GuiInputs ==
    { NoInput,
      [NoInput EXCEPT !.resolution = Ws("Ws360P")],
      [NoInput EXCEPT !.samples = 2],
      [NoInput EXCEPT !.pause_button = TRUE] }

WheelDeltas ==
    { [kind |-> "LineDelta", y |-> 1], [kind |-> "LineDelta", y |-> -1],
      [kind |-> "PixelDelta", y |-> 10] }

\* The renderer: redraws with UI input, the wheel, and one load.
Next ==
    \/ \E gui \in GuiInputs, delta \in FrameDeltas : RedrawRequested(gui, delta)
    \/ tasks = << >> /\ OnDrop(OneTriangle)
    \/ \E i \in 1..MaxLoads : TaskStart(i)
    \/ \E i \in 1..MaxLoads : ReadDone(i)
    \/ \E i \in 1..MaxLoads : SceneNewDone(i)
    \/ \E delta \in {[kind |-> "LineDelta", y |-> 1]} : MouseWheel(delta)

Spec == Init /\ [][Next]_vars

\* Loads: dropped files and chosen scenes, good and bad, overlapping.
InstallGuiInputs ==
    { NoInput,
      [NoInput EXCEPT !.selected_url = "/garden.tsplat"],
      [NoInput EXCEPT !.close_error = TRUE] }

NextInstall ==
    \/ \E gui \in InstallGuiInputs, delta \in FrameDeltas : RedrawRequested(gui, delta)
    \/ \E stream \in AppStreams : OnDrop(stream)
    \/ \E i \in 1..MaxLoads : TaskStart(i)
    \/ \E i \in 1..MaxLoads : FetchFailed(i)
    \/ \E i \in 1..MaxLoads, stream \in AppStreams : FetchOk(i, stream)
    \/ \E i \in 1..MaxLoads : ReadDone(i)
    \/ \E i \in 1..MaxLoads : SceneNewDone(i)
    \/ OnDragEnter
    \/ OnDragLeave

SpecInstall == Init /\ [][NextInstall]_vars

\* The pointer: positions in units of 1/20 pixel.
MousePositions == { <<0, 0>>, <<1, 0>>, <<1, 3>> }

CameraGuiInputs ==
    { NoInput,
      [NoInput EXCEPT !.resolution = Ws("Ws360P")],
      [NoInput EXCEPT !.samples = 2] }

NextCamera ==
    \/ \E position \in MousePositions : CursorMoved(position)
    \/ \E button \in {"Left", "Right"}, pressed \in BOOLEAN : MouseInput(button, pressed)
    \/ \E delta \in WheelDeltas : MouseWheel(delta)
    \/ \E gui \in CameraGuiInputs, delta \in FrameDeltas : RedrawRequested(gui, delta)

SpecCamera == Init /\ [][NextCamera]_vars

\* The pacer: frame times from very short to very long.
PacerDeltas == { 0, 170, 1000 }

PacerGuiInputs == { NoInput, [NoInput EXCEPT !.pause_button = TRUE] }

NextPacer ==
    \/ \E gui \in PacerGuiInputs, delta \in PacerDeltas : RedrawRequested(gui, delta)
    \/ \E stream \in AppStreams : tasks = << >> /\ OnDrop(stream)
    \/ \E i \in 1..MaxLoads : TaskStart(i)
    \/ \E i \in 1..MaxLoads : ReadDone(i)
    \/ \E i \in 1..MaxLoads : SceneNewDone(i)

SpecPacer == Init /\ [][NextPacer]_vars

\* The frame settings: every entry of the panel's two combo boxes, the
\* native entry for three window sizes.
Resolutions == Presets \cup { Native(size[1], size[2]) : size \in CanvasSizes }

Supersamples == 1..5

FrameGuiInputs ==
    { [NoInput EXCEPT !.resolution = resolution, !.samples = samples,
                      !.panel_button = panel_button] :
        resolution \in Resolutions \cup {Ws("keep")},
        samples \in Supersamples \cup {0},
        panel_button \in BOOLEAN }

NextFrame ==
    \/ \E gui \in FrameGuiInputs, delta \in FrameDeltas : RedrawRequested(gui, delta)
    \/ \E size \in CanvasSizes : WindowResized(size)

SpecFrame == Init /\ [][NextFrame]_vars

\* The letterbox: a loaded Scene composited onto windows of several sizes,
\* at preset resolutions and at the native resolution of each size.
LetterboxGuiInputs ==
    { [NoInput EXCEPT !.resolution = resolution] :
        resolution \in { Ws("keep"), Ws("Ws360P"), Ws("Ws1080P") }
                       \cup { Native(size[1], size[2]) : size \in WindowSizes } }

NextLetterbox ==
    \/ \E gui \in LetterboxGuiInputs, delta \in FrameDeltas : RedrawRequested(gui, delta)
    \/ \E size \in WindowSizes : WindowResized(size)
    \/ tasks = << >> /\ OnDrop(OneTriangle)
    \/ \E i \in 1..MaxLoads : TaskStart(i)
    \/ \E i \in 1..MaxLoads : ReadDone(i)
    \/ \E i \in 1..MaxLoads : SceneNewDone(i)

SpecLetterbox == Init /\ [][NextLetterbox]_vars

\* The attribute textures: uploads of record counts around one chunk and
\* around 2^24, where a usize no longer converts to f32 exactly.
PerChunk == TEXTURE_WIDTH * ROWS_PER_CHUNK

UploadCounts ==
    { 0, 1, PerChunk - 1, PerChunk, PerChunk + 1, 3 * PerChunk,
      MMax - 1, MMax, MMax + 1, MMax + 3, 33 * PerChunk + 1 }

NextUpload ==
    \/ \E count \in UploadCounts : UploadStart(count)
    \/ UploadChunk
    \/ UploadReturn

SpecUpload == Init /\ [][NextUpload]_vars

\* Every kind of event the application handles: redraws, the pointer, the
\* wheel, drag and drop, and a load that starts and succeeds or fails.
EventStreams == { OneTriangle, [OneTriangle EXCEPT !.missing = 1] }

NextEvents ==
    \/ \E delta \in FrameDeltas : RedrawRequested(NoInput, delta)
    \/ \E position \in {<<0, 0>>, <<1, 3>>} : CursorMoved(position)
    \/ \E pressed \in BOOLEAN : MouseInput("Left", pressed)
    \/ \E delta \in {[kind |-> "LineDelta", y |-> 1]} : MouseWheel(delta)
    \/ OnDragEnter
    \/ OnDragLeave
    \/ \E stream \in EventStreams : tasks = << >> /\ OnDrop(stream)
    \/ \E i \in 1..MaxLoads : TaskStart(i)
    \/ \E i \in 1..MaxLoads : ReadDone(i)
    \/ \E i \in 1..MaxLoads : SceneNewDone(i)

SpecEvents == Init /\ [][NextEvents]_vars

\* Redraws that change the frame settings, interleaved with loads that
\* overlap and replace the Scene.
InterleaveGuiInputs ==
    { NoInput,
      [NoInput EXCEPT !.resolution = Ws("Ws360P")],
      [NoInput EXCEPT !.samples = 2],
      [NoInput EXCEPT !.selected_url = "/garden.tsplat"] }

NextInterleave ==
    \/ \E gui \in InterleaveGuiInputs, delta \in FrameDeltas : RedrawRequested(gui, delta)
    \/ OnDrop(OneTriangle)
    \/ \E i \in 1..MaxLoads : TaskStart(i)
    \/ \E i \in 1..MaxLoads : FetchOk(i, OneTriangle)
    \/ \E i \in 1..MaxLoads : ReadDone(i)
    \/ \E i \in 1..MaxLoads : SceneNewDone(i)

SpecInterleave == Init /\ [][NextInterleave]_vars

(***************************************************************************)
(* Part 6: the properties.                                                 *)
(***************************************************************************)

\* The downsample passes of the latest Display::render call, in order.
Passes == SelectSeq(gpu_log, LAMBDA c : c.op = "downsample")

Count(log, op) == Len(SelectSeq(log, LAMBDA c : c.op = op))

FrontId == render_frame.blit_front_texture.id

BackId == render_frame.blit_back_texture.id

\* C1: in every subframe of a render call the downsample pass reads its
\* history from a texture other than the one it renders into, and front and
\* back change places exactly once per subframe: a call with a Scene swaps
\* and downsamples subframe_count times, the targets of successive passes
\* alternate between the RenderFrame's two accumulation textures, and the
\* last target is the front texture the call leaves behind.
C1_NoReadOfRenderTarget ==
    /\ render_frame.sample_bind_group_front.history = BackId
    /\ FrontId # BackId
    /\ render_call # None =>
          /\ \A j \in 1..Len(Passes) :
                /\ Passes[j].history # Passes[j].target
                /\ {Passes[j].history, Passes[j].target} = {FrontId, BackId}
          /\ \A j \in 1..(Len(Passes) - 1) : Passes[j + 1].target # Passes[j].target
          /\ Passes # << >> => Passes[Len(Passes)].target = FrontId
          /\ Count(gpu_log, "swap") = Len(Passes)
          /\ Len(Passes) = IF render_call[1].scene_loaded
                           THEN render_call[1].subframe_count ELSE 0

\* A render call of at least two subframes on a RenderFrame created after a
\* resolution or supersample change, with subframes of earlier frames on it.
C1_Witness ==
    /\ frames_created >= 2
    /\ render_call # None
    /\ render_call[1].written_before # None
    /\ Len(Passes) >= 2

\* C2: after a render call with stale_camera = TRUE and a Scene loaded, the
\* front accumulation texture holds the filtered sample of the call's last
\* subframe and nothing else, whatever subframe_count >= 1 was.
C2_StaleFrameKeepsNoHistory ==
    (/\ render_call # None
     /\ render_call[1].stale_camera
     /\ render_call[1].scene_loaded) =>
        content[FrontId] = { <<"sample", render_call[1].subframe_count>> }

\* A stale render call of several subframes on textures that held the result
\* of earlier frames.
C2_Witness ==
    /\ render_call # None
    /\ render_call[1].stale_camera
    /\ render_call[1].scene_loaded
    /\ render_call[1].subframe_count >= 2
    /\ render_call[1].written_before # None

\* C3: every subframe but the first on a RenderFrame reads as history the
\* texture that the subframe before it wrote, also when that subframe belongs
\* to the previous displayed frame; and each subframe's passes are submitted
\* before the next subframe's begin.
C3_HistoryIsPreviousFront ==
    render_call # None =>
        /\ \A j \in 2..Len(Passes) : Passes[j].history = Passes[j - 1].target
        /\ (Passes # << >> /\ render_call[1].written_before # None) =>
               Passes[1].history = render_call[1].written_before[1]
        /\ \A j \in 1..Len(Passes) :
               /\ gpu_log[4 * j - 3].op = "swap"
               /\ gpu_log[4 * j - 2].op = "splat"
               /\ gpu_log[4 * j - 1].op = "downsample"
               /\ gpu_log[4 * j].op = "submit"

\* A call of three subframes that follows subframes of an earlier frame.
C3_Witness ==
    /\ render_call # None
    /\ render_call[1].written_before # None
    /\ ~render_call[1].stale_camera
    /\ Len(Passes) >= 3

\* Thrice the projection of the centroid (v0 + v1 + v2) / 3 onto forward.
CentroidProjection3(tri) == Dot(VAdd(VAdd(tri[1], tri[2]), tri[3]), forward)

IsWellFormed(stream) ==
    /\ stream.line = HeaderLine
    /\ stream.count = <<U(Len(stream.body))>>
    /\ stream.missing = 0

\* C4: for a well-formed stream, the order read_tsplat returns is a
\* permutation of the input order along which the projection of each
\* triangle's centroid onto forward never increases.
C4_SortedByCentroidProjection ==
    \A i \in 1..Len(tasks) :
        (tasks[i].result.kind = "Ok" /\ IsWellFormed(tasks[i].stream[1])) =>
            LET r == tasks[i].result
                n == Len(tasks[i].stream[1].body)
            IN  /\ Len(r.order) = n
                /\ {r.order[j] : j \in 1..n} = 1..n
                /\ \A j \in 1..n : r.points[j] = tasks[i].stream[1].body[r.order[j]].pts
                /\ \A j, k \in 1..n :
                      j < k => CentroidProjection3(r.points[j]) >= CentroidProjection3(r.points[k])

\* The stream ends before the header line, the count and the 46 bytes of
\* every declared triangle have been delivered.
EndsEarly(stream) ==
    \/ stream.line = << >>
    \/ stream.line[Len(stream.line)] # "\n"
    \/ stream.count = << >>
    \/ LET declared == UMul(stream.count[1], BytesPerTri)
       IN  declared[2] \/ ULess(U(Avail(stream)), declared[1])

\* C5: for a stream that ends early, read_tsplat returns the InvalidFormat
\* error and the load installs no Scene.
C5_TruncatedStreamFails ==
    \A i \in 1..Len(tasks) :
        (tasks[i].result.kind # "Pending" /\ EndsEarly(tasks[i].stream[1])) =>
            /\ tasks[i].result = Err(INVALID_FLIE)
            /\ scene = None

SceneSrc(s) == IF s = None THEN 0 ELSE s[1].src

\* C6: state.scene is assigned only in the step in which a load whose
\* read_tsplat returned Ok finishes Scene::new, and then with that load's
\* Scene; when a load fails, the step that reports it leaves the Scene as it
\* was, sets loading to FALSE and stores the failure text in error_message.
C6_SceneInstalledOnlyOnSuccess ==
    [][ /\ SceneSrc(scene') # SceneSrc(scene) =>
              \E i \in 1..Len(tasks) :
                 /\ tasks[i].pc = "uploading"
                 /\ tasks[i].result.kind = "Ok"
                 /\ tasks'[i].pc = "done"
                 /\ scene' = Some([src |-> i,
                                   num_tris |-> Len(tasks[i].result.points),
                                   t |-> 0])
        /\ \A i \in 1..Len(tasks) :
              (/\ tasks[i].pc # "done"
               /\ tasks'[i].pc = "done"
               /\ tasks'[i].result.kind = "Err") =>
                  /\ scene' = scene
                  /\ ~loading'
                  /\ error_message' = tasks'[i].result.msg
      ]_vars

\* A load has failed after an earlier load installed a Scene, which is still
\* the active one.
C6_Witness ==
    /\ scene # None
    /\ ~loading
    /\ \E i \in 1..Len(tasks) :
          /\ tasks[i].pc = "done"
          /\ tasks[i].result.kind = "Err"
          /\ error_message = tasks[i].result.msg
          /\ SceneSrc(scene) < i

\* C7: subframe_count is at least 1 in every reachable state.
C7_SubframeCountPositive == subframe_count >= 1

\* The pacer has measured more than 25 ms for a frame of one subframe and
\* left the count at 1.
C7_Witness ==
    /\ render_call # None
    /\ render_call[1].count_before = 1
    /\ avg_frame_time > HighWater
    /\ subframe_count = 1

\* C8: each pacer update takes the updated average times the count it found
\* as the frame's real time; the count goes up by one when that is below
\* 18 ms and a Scene is loaded, otherwise down by one when it is above 25 ms
\* and the count is above 1, and otherwise stays.
C8_PacerBands ==
    render_call # None =>
        LET count == render_call[1].count_before
            real_frame_time == avg_frame_time * count
        IN  subframe_count =
                IF real_frame_time < LowWater /\ render_call[1].scene_loaded THEN count + 1
                ELSE IF real_frame_time > HighWater /\ count > 1 THEN count - 1
                ELSE count

\* The pacer has just taken a subframe away, with a Scene loaded.
C8_Witness ==
    /\ render_call # None
    /\ render_call[1].scene_loaded
    /\ subframe_count = render_call[1].count_before - 1
    /\ subframe_count >= 2

\* C9 as stated: whenever a frame's updated average times its count is below
\* 18 ms, that frame's pacer update raises the count.
C9_FastFramesRaiseCount ==
    (/\ render_call # None
     /\ avg_frame_time * render_call[1].count_before < LowWater) =>
        subframe_count > render_call[1].count_before

\* C9 amended: the same, for frames displayed while a Scene is loaded.
C9_FastFramesRaiseCountWithScene ==
    (/\ render_call # None
     /\ render_call[1].scene_loaded
     /\ avg_frame_time * render_call[1].count_before < LowWater) =>
        subframe_count > render_call[1].count_before

\* Fast frames have taken the count from 1 to the largest count explored.
C9_Witness ==
    /\ render_call # None
    /\ render_call[1].scene_loaded
    /\ avg_frame_time * render_call[1].count_before < LowWater
    /\ render_call[1].count_before >= 2
    /\ subframe_count > render_call[1].count_before

\* C10: every step that changes azimuth, elevation or zoom leaves
\* stale_camera TRUE, and every step that changes the resolution or the
\* supersample factor passes stale_camera = TRUE to its render call.
C10_ChangeRaisesStaleCamera ==
    [][ /\ (azimuth' # azimuth \/ elevation' # elevation \/ zoom' # zoom) =>
              stale_camera'
        /\ (render_resolution' # render_resolution \/ supersample' # supersample) =>
              (render_call' # None /\ render_call'[1].stale_camera)
      ]_vars

\* C11: stale_camera falls only in a RedrawRequested step, and that step
\* hands Display::render the value the flag held when the call was made (TRUE
\* also when the step itself re-created the RenderFrame); so the call after a
\* raise receives TRUE and the calls after it FALSE until the next raise.
C11_StaleClearedByRedrawOnly ==
    [][ /\ (stale_camera /\ ~stale_camera') =>
              \E gui \in GuiInputs, delta \in FrameDeltas : RedrawRequested(gui, delta)
        /\ \A gui \in GuiInputs, delta \in FrameDeltas :
              RedrawRequested(gui, delta) =>
                 /\ ~stale_camera'
                 /\ render_call'[1].stale_camera =
                       (\/ stale_camera
                        \/ render_resolution' # render_resolution
                        \/ supersample' # supersample)
      ]_vars

\* A render call that received stale = FALSE, after the raises of a Scene
\* install and of a RenderFrame re-creation were consumed by earlier calls.
C11_Witness ==
    /\ scene # None
    /\ frames_created >= 2
    /\ render_call # None
    /\ ~render_call[1].stale_camera
    /\ ~stale_camera

SubframeOps == <<"swap", "splat", "downsample", "submit">>

FrameOps == <<"clear_surface", "composite", "ui", "submit", "present">>

\* C12: with a Scene loaded, a RedrawRequested issues, for each of the
\* subframe_count subframes that the pacer chose in that cycle, a swap, the
\* clear and draw into the sample texture, the accumulate pass reading that
\* sample, and a submit, in this order; after the last of them come, once
\* each and in this order, the composite, the UI and the present.
C12_CommandOrder ==
    (render_call # None /\ render_call[1].scene_loaded) =>
        LET n == 4 * subframe_count
        IN  /\ Len(gpu_log) = n + Len(FrameOps)
            /\ \A j \in 1..Len(gpu_log) :
                  gpu_log[j].op = IF j <= n THEN SubframeOps[((j - 1) % 4) + 1]
                                  ELSE FrameOps[j - n]
            /\ \A j \in 1..subframe_count :
                  /\ gpu_log[4 * j - 2].target = render_frame.sample_texture.id
                  /\ gpu_log[4 * j - 1].sample = render_frame.sample_texture.id

\* A frame of as many subframes as the model explores.
C12_Witness ==
    /\ render_call # None
    /\ render_call[1].scene_loaded
    /\ subframe_count = MaxSubframes
    /\ Len(gpu_log) = 4 * MaxSubframes + Len(FrameOps)

Ops(log) == [j \in 1..Len(log) |-> log[j].op]

UiOnlyOps == <<"clear_surface", "ui", "submit", "present">>

\* C13: while no Scene is loaded, a Display::render call, for any
\* subframe_count and stale flag, returns the RenderFrame and the content of
\* its accumulation textures as it found them and issues only the clear of
\* the surface, the UI, the submit and the present: no swap, no splat draw,
\* no accumulate pass, no composite.  The call of the latest RedrawRequested
\* was such a call when no Scene was loaded.
C13_NoSceneRendersUiOnly ==
    /\ scene = None =>
          \A n \in 1..MaxSubframes, stale \in BOOLEAN :
             LET out == render(render_frame, content, scene, render_resolution,
                               supersample, inner_size[1], inner_size[2], n, stale)
             IN  /\ out.rf = render_frame
                 /\ out.content = content
                 /\ Ops(out.log) = UiOnlyOps
    /\ (render_call # None /\ ~render_call[1].scene_loaded) =>
          /\ Ops(gpu_log) = UiOnlyOps
          /\ written = render_call[1].written_before

\* Frames have been rendered without a Scene, on the first RenderFrame and on
\* one created later.
C13_Witness ==
    /\ scene = None
    /\ render_call # None
    /\ ~render_call[1].scene_loaded
    /\ frames_created >= 2
    /\ Ops(gpu_log) = UiOnlyOps

\* The sizes that the configuration set names.
ConfiguredSize(resolution) ==
    CASE resolution = Ws("Ws360P") -> <<640, 360>>
      [] resolution = Ws("Ws720P") -> <<1280, 720>>
      [] resolution = Ws("Ws1080P") -> <<1920, 1080>>
      [] resolution = Ws("Ws1440P") -> <<2560, 1440>>
      [] resolution = Ws("Ws2160P") -> <<3840, 2160>>
      [] resolution.name = "Native" -> <<resolution.w, resolution.h>>

Shape(texture) == <<texture.width, texture.height>>

Shapes(rf) ==
    <<Shape(rf.sample_texture), Shape(rf.depth_texture),
      Shape(rf.blit_front_texture), Shape(rf.blit_back_texture)>>

\* C14: for every resolution (W, H) of the configuration set and every
\* supersample factor S in 1..5, create_render_frame makes the sample and the
\* depth texture W*S by H*S and both accumulation textures W by H, and a
\* second call with the same arguments makes textures of the same sizes.
C14_FrameShapes ==
    \A resolution \in Resolutions, S \in Supersamples :
        LET size == ConfiguredSize(resolution)
            rf == create_render_frame(resolution, S, frames_created)
            again == create_render_frame(resolution, S, frames_created + 1)
        IN  /\ Shape(rf.sample_texture) = <<size[1] * S, size[2] * S>>
            /\ Shape(rf.depth_texture) = <<size[1] * S, size[2] * S>>
            /\ Shape(rf.blit_front_texture) = size
            /\ Shape(rf.blit_back_texture) = size
            /\ Shapes(again) = Shapes(rf)

\* The RenderFrame in use was created for 2160p with 25 samples.
C14_Witness ==
    /\ frames_created >= 2
    /\ render_resolution = Ws("Ws2160P")
    /\ supersample = 5
    /\ Shapes(render_frame) =
          <<<<19200, 10800>>, <<19200, 10800>>, <<3840, 2160>>, <<3840, 2160>>>>

Splats == SelectSeq(gpu_log, LAMBDA c : c.op = "splat")

\* C15: the RenderFrame in use is one made for the current resolution and
\* supersample factor, through every change of either: its sample and depth
\* textures have the size width*supersample by height*supersample that each
\* Scene::draw of the latest render call was given and drew into, and its
\* accumulation textures have the size of the resolution that the composite
\* letterboxes.
C15_FrameMatchesSettings ==
    LET frame_size == <<Width(render_resolution), Height(render_resolution)>>
        sample_size == <<frame_size[1] * supersample, frame_size[2] * supersample>>
    IN  /\ Shape(render_frame.sample_texture) = sample_size
        /\ Shape(render_frame.depth_texture) = sample_size
        /\ Shape(render_frame.blit_front_texture) = frame_size
        /\ Shape(render_frame.blit_back_texture) = frame_size
        /\ \A j \in 1..Len(Splats) :
              /\ <<Splats[j].width, Splats[j].height>> = sample_size
              /\ Splats[j].target = render_frame.sample_texture.id
              /\ Splats[j].depth = render_frame.depth_texture.id
        /\ \A j \in 1..Len(gpu_log) :
              gpu_log[j].op = "composite" =>
                 gpu_log[j].texture = render_frame.blit_front_texture.id

\* A Scene has been drawn after the supersample factor was changed.
C15_Witness ==
    /\ frames_created >= 2
    /\ supersample = 2
    /\ Len(Splats) >= 2

\* The composite of the latest Display::render call: empty or one entry.
Composites == SelectSeq(gpu_log, LAMBDA c : c.op = "composite")

\* A viewport lies inside a canvas: it starts at or after the canvas's
\* origin and is no wider and no higher than the canvas.
InsideCanvas(viewport, canvas_width, canvas_height) ==
    /\ viewport.x.s >= 0
    /\ viewport.y.s >= 0
    /\ ~F32Gt(viewport.width, F32FromInt(canvas_width))
    /\ ~F32Gt(viewport.height, F32FromInt(canvas_height))

\* C16: the composite of a render call with a Scene loaded is drawn into a
\* viewport that spans the canvas's width from x = 0 when the frame is
\* relatively wider than the canvas, and the canvas's height from y = 0
\* otherwise, and in both cases lies inside the canvas.
C16_LetterboxInsideCanvas ==
    \A j \in 1..Len(Composites) :
        LET viewport == Composites[j].viewport
            canvas_width == render_call[1].canvas_width
            canvas_height == render_call[1].canvas_height
            frame_aspect == F32Div(F32FromInt(Width(render_resolution)),
                                   F32FromInt(Height(render_resolution)))
            canvas_aspect == F32Div(F32FromInt(canvas_width),
                                    F32FromInt(canvas_height))
        IN  /\ IF F32Gt(frame_aspect, canvas_aspect)
               THEN viewport.x = F32Zero /\ viewport.width = F32FromInt(canvas_width)
               ELSE viewport.y = F32Zero /\ viewport.height = F32FromInt(canvas_height)
            /\ InsideCanvas(viewport, canvas_width, canvas_height)

\* C17: for a well-formed stream that declares N triangles, read_tsplat
\* returns Ok with N triangles of three positions each, N (alpha, spread)
\* records and N color records.
C17_WellFormedYieldsNRecords ==
    \A i \in 1..Len(tasks) :
        (tasks[i].result.kind # "Pending" /\ IsWellFormed(tasks[i].stream[1])) =>
            LET r == tasks[i].result
                n == N(tasks[i].stream[1].count[1])
            IN  /\ r.kind = "Ok"
                /\ Len(r.points) = n
                /\ \A j \in 1..n : Len(r.points[j]) = 3
                /\ Len(r.alpha_sigma) = n
                /\ \A j \in 1..n : Len(r.alpha_sigma[j]) = 2
                /\ Len(r.sh) = n

\* C18: the three arrays read_tsplat returns are index-aligned: entry j of
\* each comes from one and the same input triangle, every input triangle is
\* at exactly one index, and the color record is the triangle's three input
\* coefficients followed by a zero.
C18_ArraysAligned ==
    \A i \in 1..Len(tasks) :
        (tasks[i].result.kind = "Ok" /\ IsWellFormed(tasks[i].stream[1])) =>
            LET r == tasks[i].result
                body == tasks[i].stream[1].body
                n == Len(body)
            IN  /\ { r.order[j] : j \in 1..Len(r.order) } = 1..n
                /\ Len(r.order) = n
                /\ \A j \in 1..Len(r.order) :
                      LET tri == body[r.order[j]]
                      IN  /\ r.points[j] = tri.pts
                          /\ r.alpha_sigma[j] = tri.alpha_sigma
                          /\ r.sh[j] = <<tri.dc[1], tri.dc[2], tri.dc[3], 0>>

\* A well-formed stream has been read and the sort has moved a triangle.
C18_Witness ==
    \E i \in 1..Len(tasks) :
        /\ IsWellFormed(tasks[i].stream[1])
        /\ tasks[i].result.kind = "Ok"
        /\ \E j \in 1..Len(tasks[i].result.order) : tasks[i].result.order[j] # j

\* The first line without its line terminator, "\n" or "\r\n".
StripTerminator(line) ==
    LET n == Len(line)
    IN  IF n >= 2 /\ line[n - 1] = "\r" /\ line[n] = "\n" THEN SubSeq(line, 1, n - 2)
        ELSE IF n >= 1 /\ line[n] = "\n" THEN SubSeq(line, 1, n - 1)
        ELSE line

\* The first line of the stream is the literal text TSPLAT.
HeaderIsLiteral(stream) == StripTerminator(stream.line) = MAGIC

\* C19: for every stream whose first line is absent or is not the literal
\* text TSPLAT, read_tsplat returns the InvalidFormat error.
C19_OtherHeaderFails ==
    \A i \in 1..Len(tasks) :
        (tasks[i].result.kind # "Pending" /\ ~HeaderIsLiteral(tasks[i].stream[1])) =>
            tasks[i].result = Err(INVALID_FLIE)

\* read_tsplat has read the header line and the count of the stream.
ReadCount(task) ==
    /\ task.result.kind # "Pending"
    /\ \A j \in 1..Len(task.stream[1].line) : task.stream[1].line[j] # BadByte
    /\ Trim(task.stream[1].line) = MAGIC
    /\ task.stream[1].count # << >>

\* C20: for every count N that read_tsplat reads, the number of payload
\* bytes it requires is 46 * N, and no step of computing it exceeds usize:
\* nothing wraps around and nothing panics.
C20_ExpectedBytesExact ==
    \A i \in 1..Len(tasks) :
        ReadCount(tasks[i]) =>
            LET num_tris == tasks[i].stream[1].count[1]
                expected == ExpectedBytes(num_tris)
                exact == UMul(num_tris, BytesPerTri)
            IN  /\ ~exact[2]
                /\ ~expected[2]
                /\ expected[1] = exact[1]
                /\ tasks[i].result # Panic

\* C21: when upload_texture returns for N records, the texture is 8192
\* texels wide, its height is a multiple of 64, it has at least N texels,
\* and every texel has been written: the N records first, in order, then
\* zeroed texels up to the end.
C21_TextureHoldsAllRecords ==
    (upload # None /\ upload[1].pc = "done") =>
        LET u == upload[1]
        IN  /\ u.w = 8192
            /\ u.h % 64 = 0
            /\ u.w * u.h >= u.num_texels
            /\ u.records = u.num_texels
            /\ u.records + u.zeros = u.w * u.h

\* C22: each pacer update sets avg_frame_time to 0.9 * avg_frame_time +
\* 0.1 * dt, where dt is the time since the previous update divided by the
\* subframe count the previous Display::render call was given, and 15 ms on
\* the first update; the count then changes only when the updated average
\* times the count is outside the band.
C22_SmoothedAverage ==
    [][ \A gui \in PacerGuiInputs, delta \in PacerDeltas :
           RedrawRequested(gui, delta) =>
              LET dt == IF render_call = None THEN FirstDt
                        ELSE delta \div render_call[1].subframe_count
              IN  /\ avg_frame_time' = (9 * avg_frame_time + dt) \div 10
                  /\ subframe_count' > subframe_count =>
                         avg_frame_time' * subframe_count < LowWater
                  /\ subframe_count' < subframe_count =>
                         avg_frame_time' * subframe_count > HighWater
      ]_vars

\* An update that divided the time by a count above one has moved the average.
C22_Witness ==
    /\ render_call # None
    /\ render_call[1].count_before >= 2
    /\ avg_frame_time # InitialAvgFrameTime

\* C23: subframe_count and avg_frame_time change only in a RedrawRequested
\* step, and such a step applies the pacer update once: one smoothing of the
\* average and a change of the count by at most one.  The pointer, the
\* wheel, drag and drop and every step of a load leave both as they are.
C23_PacerOnlyInRedraw ==
    [][ /\ (subframe_count' # subframe_count \/ avg_frame_time' # avg_frame_time) =>
              \E delta \in FrameDeltas : RedrawRequested(NoInput, delta)
        /\ \A delta \in FrameDeltas :
              RedrawRequested(NoInput, delta) =>
                 LET dt == IF last_frame_time = "Some"
                           THEN delta \div subframe_count ELSE FirstDt
                 IN  /\ avg_frame_time' = (9 * avg_frame_time + dt) \div 10
                     /\ subframe_count' \in
                            { subframe_count - 1, subframe_count, subframe_count + 1 }
      ]_vars

\* The pacer has raised the count, and the pointer and the wheel have acted.
C23_Witness ==
    /\ render_call # None
    /\ subframe_count >= 2
    /\ mouse_dragging
    /\ zoom # 0
    /\ \E i \in 1..Len(tasks) : tasks[i].pc = "done"

\* C24: a Scene's counter t is 0 in the step that installs the Scene; while
\* that Scene stays installed t never decreases and changes only in a
\* RedrawRequested step, by exactly one when paused is false at lib.rs:339
\* and not at all when it is true.
C24_TimeCounter ==
    [][ /\ (scene' # None /\ SceneSrc(scene') # SceneSrc(scene)) => scene'[1].t = 0
        /\ (scene # None /\ SceneSrc(scene') = SceneSrc(scene)) =>
              /\ scene'[1].t >= scene[1].t
              /\ scene'[1].t # scene[1].t =>
                    \E gui \in GuiInputs, delta \in FrameDeltas : RedrawRequested(gui, delta)
              /\ \A gui \in GuiInputs, delta \in FrameDeltas :
                    RedrawRequested(gui, delta) =>
                       scene'[1].t = IF paused' THEN scene[1].t ELSE scene[1].t + 1
      ]_vars

\* A Scene that was advanced by a redraw is now paused.
C24_Witness ==
    /\ scene # None
    /\ scene[1].t >= 1
    /\ paused
    /\ render_call # None
    /\ render_call[1].scene_loaded

\* C25: a render call that runs subframes with stale = FALSE comes right
\* after a render call that ran subframes for the same Scene on the same
\* RenderFrame, and its first accumulate pass reads the target that call
\* wrote last; so the first call that runs subframes after a RenderFrame is
\* created or a Scene is installed gets stale = TRUE, and no accumulation
\* texture takes in what a texture held when it was created.
C25_FirstFrameIsStale ==
    [][ (/\ render_call' # None
         /\ render_call'[1].scene_loaded
         /\ ~render_call'[1].stale_camera
         /\ \E gui \in InterleaveGuiInputs, delta \in FrameDeltas :
                RedrawRequested(gui, delta)) =>
            /\ render_call # None
            /\ render_call[1].scene_loaded
            /\ render_call[1].scene_src = render_call'[1].scene_src
            /\ ~render_call'[1].recreated
            /\ render_frame'.sample_texture.id = render_frame.sample_texture.id
            /\ written # None
            /\ gpu_log'[3].op = "downsample" /\ gpu_log'[3].history = written[1]
            /\ \A id \in DOMAIN content' : <<"fresh", 0>> \notin content'[id]
      ]_vars

\* A render call without stale for a Scene that replaced an earlier one, on
\* a RenderFrame that replaced the first.
C25_Witness ==
    /\ render_call # None
    /\ render_call[1].scene_loaded
    /\ ~render_call[1].stale_camera
    /\ render_call[1].scene_src = 2
    /\ frames_created >= 2

\* C26: whatever the number of swaps so far, blit_front_bind_group views
\* blit_front_texture and the history entry of sample_bind_group_front views
\* blit_back_texture; and the texture composited onto the surface by a render
\* call with a Scene loaded is the target of that call's last accumulate pass.
C26_FrontGroupViewsFront ==
    /\ render_frame.blit_front_bind_group.texture = render_frame.blit_front_texture.id
    /\ render_frame.sample_bind_group_front.history = render_frame.blit_back_texture.id
    /\ (render_call # None /\ render_call[1].scene_loaded) =>
          /\ Len(Composites) = 1
          /\ Passes # << >>
          /\ Composites[1].texture = Passes[Len(Passes)].target
          /\ Composites[1].texture = FrontId

\* Render calls with a Scene have swapped an odd number of times in all.
C26_Witness ==
    /\ render_call # None
    /\ render_call[1].scene_loaded
    /\ render_call[1].written_before # None
    /\ Len(Passes) >= 2
    /\ render_frame.blit_front_texture.id % 4 = 3

\* C27: in a render call made while unpaused, the seed of every Scene::draw
\* is the Scene's counter t, and the seeds of two consecutive draws differ,
\* also when both draws are subframes of the same displayed frame.
C27_SeedDiffersPerSubframe ==
    (render_call # None /\ render_call[1].scene_loaded /\ ~paused) =>
        /\ \A j \in 1..Len(Splats) :
              render_call[1].scene_src = SceneSrc(scene) => Splats[j].seed = scene[1].t
        /\ \A j \in 2..Len(Splats) : Splats[j].seed # Splats[j - 1].seed

\* A load for which begin_loading has been called and which has neither
\* installed its Scene nor reported a failure.
InProgress(task) ==
    \/ task.kind = "file" /\ task.pc \in {"spawned", "reading", "uploading"}
    \/ task.kind = "url" /\ task.pc \in {"fetching", "reading", "uploading"}

\* C28: loading is TRUE whenever some load is in progress, also when loads
\* overlap.
C28_LoadingWhileInProgress ==
    (\E i \in 1..Len(tasks) : InProgress(tasks[i])) => loading

\* C29: once every load has finished, and at least two were started and all
\* succeeded, the installed Scene is the one of the load started last,
\* whichever of them finished last.
C29_LastStartedWins ==
    (/\ Len(tasks) >= 2
     /\ \A i \in 1..Len(tasks) : tasks[i].pc = "done" /\ tasks[i].result.kind = "Ok") =>
        SceneSrc(scene) = Len(tasks)

\* C30: read_tsplat returns Ok or Err for every stream whose declared size
\* fits a usize: whatever the payload holds, NaN position values included,
\* it does not panic.
C30_NeverPanicsOnPayload ==
    \A i \in 1..Len(tasks) :
        LET stream == tasks[i].stream[1]
        IN  (/\ tasks[i].result.kind # "Pending"
             /\ stream.count # << >>
             /\ ~ExpectedBytes(stream.count[1])[2]) =>
                tasks[i].result.kind \in {"Ok", "Err"}

====
